---- MODULE Spec2Model ----
(***************************************************************************)
(* Leaf Vision chat proxy (server/chat/views.py): the chat request handler, *)
(* the upstream call executor _call_openrouter with its retry loop, and the *)
(* upstream error mapper _format_upstream_error.                            *)
(*                                                                          *)
(* Python values are modelled as tagged records.  Short strings (the user   *)
(* message, keywords) are sequences of one-character strings; long strings  *)
(* (history contents, error details) are run-length texts, sequences of     *)
(* runs [ch, n], so that slices such as [:4000] keep the source's width.    *)
(***************************************************************************)
EXTENDS Integers, Sequences, FiniteSets, TLC

\* ------------------------------------------------------------------ bounds
\* Longest history list drawn for prompt composition.
MaxHist == 9
\* Number of WebSocket connections.
NConns == 2
\* Number of broadcast frames processed in one run.
MaxBroadcasts == 1
\* Number of concurrent predict requests.
NThreads == 2

\* ------------------------------------------------------- program constants
\* def _call_openrouter(..., max_retries: int = 2, base_delay: float = 1.5)
max_retries == 2
\* base_delay = 1.5 s, kept in tenths of a second so delays stay integers.
base_delay == 15
\* for m in history[-8:]
HistoryWindow == 8
\* c.strip()[:4000]
ContentCap == 4000
\* msg[:500]
DetailsCap == 500
\* return 599, str(e), None   (timeout / connection error)
NetworkSentinel == 599
\* return 598, str(e), None   (any other exception)
UnexpectedSentinel == 598

\* Fault: 404 taken for a transient status.
TRANSIENT_STATUS_with_404 == {404, 408, 409, 425, 429, 500, 502, 503, 504}

TRANSIENT_STATUS == {408, 409, 425, 429, 500, 502, 503, 504}

\* ------------------------------------------------------------- characters
LowerSeq == <<"a","b","c","d","e","f","g","h","i","j","k","l","m","n","o","p","q","r","s","t","u","v","w","x","y","z">>
UpperSeq == <<"A","B","C","D","E","F","G","H","I","J","K","L","M","N","O","P","Q","R","S","T","U","V","W","X","Y","Z">>
DigitSeq == <<"0","1","2","3","4","5","6","7","8","9">>

Range(f) == {f[i] : i \in DOMAIN f}

\* str.isalnum / str.isspace on one character
isalnum(ch) == ch \in Range(LowerSeq) \cup Range(UpperSeq) \cup Range(DigitSeq)
isspace(ch) == ch \in {" ", "\n", "\t"}
\* \w of the re module: alphanumeric or underscore
IsWordChar(ch) == isalnum(ch) \/ ch = "_"

\* str.lower on one character
lower_ch(ch) ==
  IF ch \in Range(UpperSeq)
    THEN LowerSeq[CHOOSE i \in DOMAIN UpperSeq : UpperSeq[i] = ch]
    ELSE ch

\* str.lower
lower(s) == [i \in DOMAIN s |-> lower_ch(s[i])]

\* str.strip on a character sequence
RECURSIVE lstrip(_)
lstrip(s) == IF s # <<>> /\ isspace(Head(s)) THEN lstrip(Tail(s)) ELSE s
RECURSIVE rstrip(_)
rstrip(s) ==
  IF s # <<>> /\ isspace(s[Len(s)]) THEN rstrip(SubSeq(s, 1, Len(s) - 1)) ELSE s
strip(s) == rstrip(lstrip(s))

\* s.startswith(p)
startswith(s, p) == Len(p) <= Len(s) /\ SubSeq(s, 1, Len(p)) = p

\* p occurs in s at position i (1-based)
OccursAt(s, p, i) == i + Len(p) - 1 <= Len(s) /\ SubSeq(s, i, i + Len(p) - 1) = p

\* the Python test `p in s` on strings
contains(s, p) == \E i \in 1..(Len(s) + 1) : OccursAt(s, p, i)

\* re.search(rf"\b{re.escape(p)}\b", s) for a keyword p that starts and ends
\* with a word character: an occurrence with no word character on either side
word_search(s, p) ==
  \E i \in 1..Len(s) :
    /\ OccursAt(s, p, i)
    /\ (i = 1 \/ ~IsWordChar(s[i - 1]))
    /\ (i + Len(p) > Len(s) \/ ~IsWordChar(s[i + Len(p)]))

\* str.upper on one character
upper_ch(ch) ==
  IF ch \in Range(LowerSeq)
    THEN UpperSeq[CHOOSE i \in DOMAIN LowerSeq : LowerSeq[i] = ch]
    ELSE ch
isalpha(ch) == ch \in Range(LowerSeq) \cup Range(UpperSeq)

\* str.title: the first letter of every run of letters in upper case
title(s) ==
  [i \in DOMAIN s |->
     IF i = 1 \/ ~isalpha(s[i - 1]) THEN upper_ch(s[i]) ELSE lower_ch(s[i])]

\* ------------------------------------------------------- run-length texts
\* A text is a sequence of runs [ch |-> c, n |-> k], k >= 1: c repeated k times.
Run(c, k) == <<[ch |-> c, n |-> k]>>

RECURSIVE TextLen(_)
TextLen(x) == IF x = <<>> THEN 0 ELSE Head(x).n + TextLen(Tail(x))

\* str.strip on a text
RECURSIVE TextLStrip(_)
TextLStrip(x) ==
  IF x # <<>> /\ isspace(Head(x).ch) THEN TextLStrip(Tail(x)) ELSE x
RECURSIVE TextRStrip(_)
TextRStrip(x) ==
  IF x # <<>> /\ isspace(x[Len(x)].ch)
    THEN TextRStrip(SubSeq(x, 1, Len(x) - 1))
    ELSE x
TextStrip(x) == TextRStrip(TextLStrip(x))

\* the slice x[:k]
RECURSIVE TextSlice(_, _)
TextSlice(x, k) ==
  IF x = <<>> \/ k <= 0 THEN <<>>
  ELSE IF Head(x).n <= k
         THEN <<Head(x)>> \o TextSlice(Tail(x), k - Head(x).n)
         ELSE <<[ch |-> Head(x).ch, n |-> k]>>

\* ------------------------------------------------------------ Python values
\* A short value: a str (s its characters), None, a number or a list.
PStr(s) == [t |-> "str", s |-> s]
PNone == [t |-> "none", s |-> <<>>]
PInt == [t |-> "int", s |-> <<>>]
PList == [t |-> "list", s |-> <<>>]

\* A long value: a str (x its text), None or a number.
TStr(x) == [t |-> "str", x |-> x]
TNone == [t |-> "none", x |-> <<>>]
TInt == [t |-> "int", x |-> <<>>]

\* bool(v) of a short value (the number and the list stand for non-zero,
\* non-empty ones)
Truthy(v) == IF v.t = "str" THEN v.s # <<>> ELSE v.t \in {"int", "list"}

\* A history entry: a dict with its 'role' and 'content' (None when the key is
\* missing, as dict.get returns), or a value that is no dict.
Entry(r, c) == [t |-> "dict", role |-> r, content |-> c]
NonDict(kind) == [t |-> kind, role |-> PNone, content |-> TNone]

\* ----------------------------------------------------------- chat: intents
KNOWN_DISEASES ==
  << <<"c","o","m","m","o","n"," ","r","u","s","t">>, <<"g","r","a","y"," ","l","e","a","f"," ","s","p","o","t">>, <<"l","e","a","f"," ","b","l","i","g","h","t">>, <<"h","e","a","l","t","h","y">>,
     <<"e","a","r","l","y"," ","b","l","i","g","h","t">>, <<"l","a","t","e"," ","b","l","i","g","h","t">>,
     <<"b","r","o","w","n"," ","s","p","o","t">>, <<"l","e","a","f"," ","b","l","a","s","t">>,
     <<"b","r","o","w","n"," ","r","u","s","t">>, <<"y","e","l","l","o","w"," ","r","u","s","t">>,
     <<"i","n","v","a","l","i","d">> >>

\* SECTION_MAP, in insertion order
SECTION_KEYS == <<"prevention", "treatment", "causes", "risk_factors">>
SECTION_MAP ==
  [prevention |-> << <<"p","r","e","v","e","n","t","i","o","n">>, <<"p","r","e","v","e","n","t","i","v","e">>, <<"a","v","o","i","d","a","n","c","e">> >>,
   treatment |-> << <<"t","r","e","a","t","m","e","n","t">>, <<"c","o","n","t","r","o","l">>, <<"m","a","n","a","g","e","m","e","n","t">> >>,
   causes |-> << <<"c","a","u","s","e">>, <<"c","a","u","s","e","s">>, <<"e","t","i","o","l","o","g","y">> >>,
   risk_factors |-> << <<"r","i","s","k">>, <<"r","i","s","k"," ","f","a","c","t","o","r">>, <<"r","i","s","k"," ","f","a","c","t","o","r","s">> >>]

OUTLINE_KEYWORDS ==
  { <<"o","u","t","l","i","n","e">>, <<"b","u","l","l","e","t","s">>, <<"b","u","l","l","e","t"," ","p","o","i","n","t","s">>, <<"b","u","l","l","e","t"," ","l","i","s","t">>,
    <<"l","i","s","t"," ","o","f">>, <<"m","a","k","e"," ","a"," ","l","i","s","t">> }

\* detect_outline_and_sections(msg) -> (outline, sections)
detect_outline_and_sections(msg) ==
  LET m == lower(msg)
      outline == \E k \in OUTLINE_KEYWORDS : contains(m, k)
      hit(key) == \E j \in DOMAIN SECTION_MAP[key] :
                     word_search(m, SECTION_MAP[key][j])
      found == SelectSeq(SECTION_KEYS, hit)
      sections == IF ~outline THEN <<>>
                  ELSE IF found = <<>> THEN <<"prevention">> ELSE found
  IN [outline |-> outline, sections |-> sections]

\* Fault: the normalisation without ch.lower().
msg_norm_keep_case(user_message) ==
  strip([i \in DOMAIN user_message |->
           IF isalnum(user_message[i]) \/ isspace(user_message[i])
             THEN user_message[i]
             ELSE " "])

\* msg_norm = ''.join(ch.lower() if ch.isalnum() or ch.isspace() else ' '
\*                    for ch in user_message).strip()
msg_norm(user_message) ==
  strip([i \in DOMAIN user_message |->
           IF isalnum(user_message[i]) \/ isspace(user_message[i])
             THEN lower_ch(user_message[i])
             ELSE " "])

greetings ==
  { <<"h","i">>, <<"h","e","l","l","o">>, <<"h","e","y">>, <<"g","o","o","d"," ","m","o","r","n","i","n","g">>, <<"g","o","o","d"," ","a","f","t","e","r","n","o","o","n">>,
    <<"g","o","o","d"," ","e","v","e","n","i","n","g">> }

\* the greeting test of chat()
is_greeting(norm) ==
  \/ norm \in greetings
  \/ startswith(norm, <<"h","e","l","l","o">>)
  \/ startswith(norm, <<"h","i"," ">>)
  \/ startswith(norm, <<"h","e","y">>)

\* the thanks test of chat()
is_thanks(norm) ==
  \E x \in { <<"t","h","a","n","k","s">>, <<"t","h","a","n","k"," ","y","o","u">>, <<"t","h","a","n","k","y","o","u">> } : contains(norm, x)

\* for name in KNOWN_DISEASES: if re.search(...): disease = name.title(); break
extract_disease(norm) ==
  LET hits == SelectSeq(KNOWN_DISEASES, LAMBDA name : word_search(norm, name))
  IN IF hits = <<>> THEN PNone ELSE PStr(title(Head(hits)))

\* ------------------------------------------------------- upstream documents
\* A value inside a JSON document: absent key, null, a string (x its text), a
\* number, or an object with the keys the error mapper reads.
TAbsent == [t |-> "absent", x |-> <<>>]
VLeaf(kind, x) ==
  [t |-> kind, x |-> x, message |-> TAbsent, msg |-> TAbsent,
   error |-> TAbsent, other |-> FALSE]
VAbsent == VLeaf("absent", <<>>)
VStr(x) == VLeaf("str", x)
VInt == VLeaf("int", <<>>)
\* {"message": m, "msg": g, "error": e} plus, when other, keys nobody reads
VDict(m, g, e, other) ==
  [t |-> "dict", x |-> <<>>, message |-> m, msg |-> g, error |-> e,
   other |-> other]

\* bool(v) of such values (a number stands for a non-zero one)
TruthyT(v) == IF v.t = "str" THEN v.x # <<>> ELSE v.t = "int"
TruthyV(v) ==
  CASE v.t = "str" -> v.x # <<>>
    [] v.t = "int" -> TRUE
    [] v.t = "dict" -> \/ v.other
                       \/ v.message.t # "absent"
                       \/ v.msg.t # "absent"
                       \/ v.error.t # "absent"
    [] OTHER -> FALSE

\* a or b or c, on the values under a document's keys
Or3V(a, b, c) == IF TruthyV(a) THEN a ELSE IF TruthyV(b) THEN b ELSE c
\* a or b or c, on the values under a nested object's keys
Or3T(a, b, c) == IF TruthyT(a) THEN a ELSE IF TruthyT(b) THEN b ELSE c

\* A parsed JSON document.  root: "dict", "list", "num" or "null"; n: the length
\* of a list / the value of a number; for a dict: the keys 'error', 'message',
\* 'detail' (what the error mapper reads), 'choices' ("absent", "empty" = [],
\* "nomsg" = [{}], "one" = [{"message": {"content": content}}]) and whether
\* other keys exist.  cjson says what json.loads(content) gives: "raise", "dict"
\* or "other".
Doc(root, n, error, message, detail, other, choices, content, cjson) ==
  [root |-> root, n |-> n, error |-> error, message |-> message,
   detail |-> detail, other |-> other, choices |-> choices,
   content |-> content, cjson |-> cjson]
NullDoc == Doc("null", 0, VAbsent, VAbsent, VAbsent, FALSE, "absent", TAbsent, "raise")
ListDoc(n) == Doc("list", n, VAbsent, VAbsent, VAbsent, FALSE, "absent", TAbsent, "raise")
ErrDoc(error, message, detail) ==
  Doc("dict", 0, error, message, detail, FALSE, "absent", TAbsent, "raise")
ChatDoc(choices, content, cjson) ==
  Doc("dict", 0, VAbsent, VAbsent, VAbsent, TRUE, choices, content, cjson)

\* bool(doc)
TruthyDoc(d) ==
  CASE d.root = "dict" -> \/ d.other
                          \/ d.choices # "absent"
                          \/ \E v \in {d.error, d.message, d.detail} : v.t # "absent"
    [] d.root \in {"list", "num"} -> d.n # 0
    [] OTHER -> FALSE

\* A text received or produced (resp.text, str(e)): its identity, whether it
\* is JSON, and then the document it denotes.
Text(id, valid, doc) == [id |-> id, valid |-> valid, doc |-> doc]
Plain(id) == Text(id, FALSE, NullDoc)
Json(id, doc) == Text(id, TRUE, doc)

\* json.loads(raw_text): raises on text that is no JSON
json_loads(raw_text) ==
  IF raw_text.valid THEN [raised |-> FALSE, doc |-> raw_text.doc]
                    ELSE [raised |-> TRUE, doc |-> NullDoc]

\* a parsed value or None, as _call_openrouter returns it
JsNone == [t |-> "none", doc |-> NullDoc]
JsOf(doc) == IF doc.root = "null" THEN JsNone ELSE [t |-> "json", doc |-> doc]

\* js = None; try: js = resp.json() except Exception: pass
resp_json(raw_text) ==
  LET p == json_loads(raw_text) IN IF p.raised THEN JsNone ELSE JsOf(p.doc)

\* ------------------------------------------------- _call_openrouter: pieces
\* Faults: the retry test off by one, either way.
CanRetry_strict(a) == a < max_retries
CanRetry_extra(a) == a <= max_retries + 1

\* attempt <= max_retries, the retry test of both retrying branches
CanRetry(a) == a <= max_retries

\* time.sleep(base_delay * attempt)
Delay(a) == base_delay * a

\* return resp.status_code, txt, js
ResponseResult(status_code, txt) ==
  [status |-> status_code, raw |-> txt, js |-> resp_json(txt)]

\* Fault: the two sentinels mixed up.
NetworkResult_as_unexpected(e) ==
  [status |-> UnexpectedSentinel, raw |-> e, js |-> JsNone]

\* return 599, str(e), None
NetworkResult(e) == [status |-> NetworkSentinel, raw |-> e, js |-> JsNone]

\* return 598, str(e), None
UnexpectedResult(e) == [status |-> UnexpectedSentinel, raw |-> e, js |-> JsNone]

NoResult == [status |-> 0, raw |-> Plain(""), js |-> JsNone]

\* ------------------------------------------------- _format_upstream_error
\* msg = parsed.get('error') or parsed.get('message') or parsed.get('detail');
\* a dict msg is replaced by its inner message / msg / error when that is a str;
\* details = msg[:500] when msg is a str, else None.
DetailsOfDoc(parsed) ==
  IF parsed.root # "dict" THEN [t |-> "none", x |-> <<>>]
  ELSE LET msg == Or3V(parsed.error, parsed.message, parsed.detail)
           inner == Or3T(msg.message, msg.msg, msg.error)
           str == IF msg.t = "dict" /\ inner.t = "str" THEN inner ELSE msg
       IN IF str.t = "str"
            THEN [t |-> "str", x |-> TextSlice(str.x, DetailsCap)]
            ELSE [t |-> "none", x |-> <<>>]

\* Fault: json.loads outside the try block.
ExtractDetails_uncaught(raw_text) ==
  LET p == json_loads(raw_text)
  IN [raised |-> p.raised,
      details |-> IF p.raised THEN [t |-> "none", x |-> <<>>]
                              ELSE DetailsOfDoc(p.doc)]

\* try: parsed = json.loads(raw_text) ... except Exception: pass
ExtractDetails(raw_text) ==
  LET p == json_loads(raw_text)
  IN IF p.raised THEN [raised |-> FALSE, details |-> [t |-> "none", x |-> <<>>]]
                 ELSE [raised |-> FALSE, details |-> DetailsOfDoc(p.doc)]

\* the specific overrides and the defaults: (local status, message)
StatusOverride(up_status) ==
  CASE up_status = 401 ->
         [status |-> 401, message |-> "Invalid or missing OpenRouter API key please try again"]
    [] up_status = 403 ->
         [status |-> 403, message |-> "Access forbidden by upstream (possible model restriction)"]
    [] up_status = 404 ->
         [status |-> 502, message |-> "Model or endpoint not found upstream"]
    [] up_status = 429 ->
         [status |-> 429, message |-> "Rate limit reached. Please retry later"]
    [] up_status \in {500, 502, 503, 504} ->
         [status |-> 502, message |-> "Upstream service is temporarily unavailable"]
    [] up_status \in {598, 599} ->
         [status |-> 503, message |-> "Network failure contacting upstream"]
    [] up_status \notin {401, 403, 404, 429, 500, 502, 503, 504, 598, 599}
       /\ 400 <= up_status /\ up_status < 500 ->
         [status |-> 502, message |-> "Upstream rejected the request"]
    [] OTHER ->
         [status |-> 502, message |-> "Upstream model request failed"]

\* "retryable": up_status in TRANSIENT_STATUS
Retryable(up_status) == up_status \in TRANSIENT_STATUS

\* _format_upstream_error(up_status, raw_text) -> (status, body); raised says
\* whether the call ends in an exception instead
_format_upstream_error(up_status, raw_text) ==
  LET ex == ExtractDetails(raw_text)
      o == StatusOverride(up_status)
  IN [raised |-> ex.raised,
      status |-> o.status,
      message |-> o.message,
      upstream_status |-> up_status,
      retryable |-> Retryable(up_status),
      details |-> ex.details]

\* ------------------------------------------------------------ chat: pieces
\* A response of the chat view.  kind: "reply" ({"reply": ...}), "guide"
\* ({"guide": ...}), "error" ({"error": {"message": ...}}) or "upstream_error"
\* (the envelope of _format_upstream_error).  message: the canned or error
\* message; content: the model content of a reply or guide.
Response(status, kind, message, content, upstream_status, retryable, details) ==
  [status |-> status, kind |-> kind, message |-> message, content |-> content,
   upstream_status |-> upstream_status, retryable |-> retryable,
   details |-> details]
NoResponse == Response(0, "none", "", TNone, 0, FALSE, TNone)
Reply(message, content) == Response(200, "reply", message, content, 0, FALSE, TNone)
Guide(content) == Response(200, "guide", "", content, 0, FALSE, TNone)
Error(status, message) == Response(status, "error", message, TNone, 0, FALSE, TNone)

GREETING_REPLY ==
  "Hello. How may I assist you with leaf disease detection, causes, prevention, treatment, or risk factors?"
THANKS_REPLY ==
  "You're welcome. If you need more help with leaf diseases, please let me know."

\* except Exception as e: return Response({"error": {"message": str(e)}}, 500)
Unhandled == Error(500, "str(e)")

\* Fault: the first eight entries, history[:8].
history_window_first(history) ==
  SubSeq(history, 1, IF Len(history) > HistoryWindow THEN HistoryWindow
                                                     ELSE Len(history))

\* history[-8:]
history_window(history) ==
  SubSeq(history, IF Len(history) > HistoryWindow
                    THEN Len(history) - HistoryWindow + 1 ELSE 1,
         Len(history))

\* r in ("user", "assistant") and isinstance(c, str) and c.strip()
valid_turn(m) ==
  /\ m.role.t = "str"
  /\ m.role.s \in { <<"u","s","e","r">>, <<"a","s","s","i","s","t","a","n","t">> }
  /\ m.content.t = "str"
  /\ TextStrip(m.content.x) # <<>>

\* {"role": r, "content": c.strip()[:4000]}
turn_of(m) ==
  [role |-> m.role.s, kind |-> "turn",
   text |-> TextSlice(TextStrip(m.content.x), ContentCap),
   disease |-> PNone, sections |-> <<>>, question |-> <<>>]

\* {"role": "system", "content": SYSTEM_PROMPT}
system_message ==
  [role |-> <<"s","y","s","t","e","m">>, kind |-> "system", text |-> <<>>,
   disease |-> PNone, sections |-> <<>>, question |-> <<>>]

\* the final user message: context line (the disease, or the fallback when
\* there is none), the outline sections of the format instruction, and the
\* question (user_message or 'Provide a concise guide.')
final_message(disease, sections, user_message) ==
  [role |-> <<"u","s","e","r">>, kind |-> "final", text |-> <<>>,
   disease |-> IF Truthy(disease) THEN disease ELSE PNone,
   sections |-> sections,
   question |-> IF user_message = <<>> THEN <<"P","r","o","v","i","d","e"," ","a"," ","c","o","n","c","i","s","e"," ","g","u","i","d","e",".">>
                                       ELSE user_message]

\* the loop over history[-8:]: m.get(...) raises on an entry that is no dict
compose_turns(history) ==
  LET w == history_window(history)
  IN IF \E i \in DOMAIN w : w[i].t # "dict"
       THEN [raised |-> TRUE, turns |-> <<>>]
       ELSE [raised |-> FALSE,
             turns |-> LET v == SelectSeq(w, valid_turn)
                       IN [i \in DOMAIN v |-> turn_of(v[i])]]

\* chat(), from its first line to the payload handed to _call_openrouter:
\* either a response, or the message list and whether response_format is set
Begin(key, data) ==
  LET user_message == IF Truthy(data.message) THEN data.message ELSE PStr(<<>>)
      norm == msg_norm(user_message.s)
      disease == IF Truthy(data.disease) THEN data.disease
                 ELSE IF extract_disease(norm).t = "str"
                        THEN extract_disease(norm) ELSE data.disease
      det == detect_outline_and_sections(user_message.s)
      \* history = data.get('history') or []; if isinstance(history, list)
      history == IF data.history.t = "list" THEN data.history.items ELSE <<>>
      ct == compose_turns(history)
      answer(r) == [pc |-> "done", response |-> r, messages |-> <<>>,
                    json_mode |-> FALSE]
  IN IF ~key THEN answer(Error(400, "OPENROUTER_API_KEY not set"))
     ELSE IF user_message.t # "str" THEN answer(Unhandled)
     ELSE IF is_greeting(norm) THEN answer(Reply(GREETING_REPLY, TNone))
     ELSE IF is_thanks(norm) THEN answer(Reply(THANKS_REPLY, TNone))
     ELSE IF ct.raised THEN answer(Unhandled)
     ELSE [pc |-> "call", response |-> NoResponse,
           messages |-> <<system_message>> \o ct.turns
                        \o <<final_message(disease, det.sections, user_message.s)>>,
           json_mode |-> data.force_json /\ Truthy(disease) /\ ~det.outline]

\* content = js.get('choices', [{}])[0].get('message', {}).get('content', '')
\* on a dict js; raised: [][0] is an IndexError
content_of(js) ==
  CASE js.choices = "empty" -> [raised |-> TRUE, content |-> TNone]
    [] js.choices = "one" /\ js.content.t # "absent" ->
         [raised |-> FALSE, content |-> js.content]
    [] OTHER -> [raised |-> FALSE, content |-> TStr(<<>>)]

\* Fault: content that is no JSON fails the request.
guide_or_reply_strict(content, cjson) ==
  CASE cjson = "dict" -> Guide(content)
    [] cjson = "raise" -> Error(502, "Invalid JSON from model")
    [] OTHER -> Reply("", content)

\* the force_json branch: json.loads(content) a dict -> guide; an exception or
\* any other value -> the raw text as reply
guide_or_reply(content, cjson) ==
  IF cjson = "dict" THEN Guide(content) ELSE Reply("", content)

\* chat(), from the return of _call_openrouter to its response
Finish(up_status, raw_text, js, json_mode) ==
  IF up_status # 200
    THEN LET f == _format_upstream_error(up_status, raw_text)
         IN IF f.raised THEN Unhandled
            ELSE Response(f.status, "upstream_error", f.message, TNone,
                          f.upstream_status, f.retryable, f.details)
  ELSE
    LET falsy == js.t = "none" \/ ~TruthyDoc(js.doc)
        p == json_loads(raw_text)
        doc == IF falsy THEN p.doc ELSE js.doc
    IN IF falsy /\ p.raised THEN Error(502, "Invalid JSON from upstream")
       ELSE IF doc.root # "dict" THEN Unhandled
       ELSE LET c == content_of(doc)
            IN IF c.raised THEN Unhandled
               ELSE IF ~TruthyT(c.content)
                      THEN Error(502, "Empty response from model")
               ELSE IF json_mode THEN guide_or_reply(c.content, doc.cjson)
               ELSE Reply("", c.content)

\* ------------------------------------------------------------------ inputs
\* Request bodies: {message, disease, confidence, history, force_json}.
Request(message, disease, history, force_json) ==
  [message |-> message, disease |-> disease, confidence |-> PNone,
   history |-> history, force_json |-> force_json]
HList(items) == [t |-> "list", items |-> items]
HNone == [t |-> "none", items |-> <<>>]
\* a truthy history that is no list (a str)
HStr == [t |-> "str", items |-> <<>>]

\* messages that greet, that thank, and that do neither
GreetingMessages ==
  { <<"h","i">>, <<"H","i","!">>, <<" "," ","H","E","L","L","O"," ">>, <<"h","e","y">>, <<"G","o","o","d","-","M","o","r","n","i","n","g">>,
    <<"g","o","o","d"," ","e","v","e","n","i","n","g",".">>, <<"g","o","o","d"," ","a","f","t","e","r","n","o","o","n">> }
\* messages the handler also greets: a prefix hello / "hi " / hey
PrefixGreetingMessages == { <<"h","e","l","l","o"," ","t","h","e","r","e">>, <<"h","i"," ","a","l","l">>, <<"h","e","y","d","a","y"," ","s","a","l","e">> }
ThanksMessages == { <<"t","h","a","n","k","s">>, <<"T","h","a","n","k"," ","y","o","u","!">> }
QuestionMessages ==
  { <<>>, <<"h","i","g","h"," ","r","i","s","k">>, <<"g","o","o","d"," "," ","m","o","r","n","i","n","g">>, <<"W","h","a","t"," ","i","s"," ","l","a","t","e"," ","b","l","i","g","h","t","?">>,
    <<"o","u","t","l","i","n","e"," ","t","r","e","a","t","m","e","n","t"," ","o","f"," ","b","r","o","w","n"," ","r","u","s","t">>, <<"m","a","k","e"," ","a"," ","l","i","s","t">> }
Messages ==
  GreetingMessages \cup PrefixGreetingMessages \cup ThanksMessages
  \cup QuestionMessages

\* history entries
UserEntry == Entry(PStr(<<"u","s","e","r">>), TStr(Run("u", 12)))
\* 4003 characters after strip, between blanks
AssistantEntry ==
  Entry(PStr(<<"a","s","s","i","s","t","a","n","t">>),
        TStr(Run(" ", 2) \o Run("a", 3000) \o Run(" ", 1) \o Run("b", 1002)
             \o Run("\n", 1)))
SystemEntry == Entry(PStr(<<"s","y","s","t","e","m">>), TStr(Run("s", 5)))
BlankEntry == Entry(PStr(<<"u","s","e","r">>), TStr(Run(" ", 3)))
NumberContentEntry == Entry(PStr(<<"a","s","s","i","s","t","a","n","t">>), TInt)
ListRoleEntry == Entry(PList, TStr(Run("r", 4)))
EmptyDictEntry == Entry(PNone, TNone)
DictEntries ==
  {UserEntry, AssistantEntry, SystemEntry, BlankEntry, NumberContentEntry,
   ListRoleEntry, EmptyDictEntry}
NonDictEntries == {NonDict("str"), NonDict("int"), NonDict("none"), NonDict("list")}

\* the (OPENROUTER_API_KEY set, request) pairs of the full handler
Inputs ==
  {<<k, Request(PStr(m), PNone, HNone, FALSE)>> : k \in BOOLEAN, m \in Messages}
  \cup {<<TRUE, Request(m, PNone, HNone, f)>> : m \in {PNone, PInt}, f \in BOOLEAN}
  \cup {<<TRUE, Request(PStr(m), d, HNone, f)>> :
          m \in { <<>>, <<"h","i","g","h"," ","r","i","s","k">>, <<"W","h","a","t"," ","i","s"," ","l","a","t","e"," ","b","l","i","g","h","t","?">>,
                  <<"o","u","t","l","i","n","e"," ","t","r","e","a","t","m","e","n","t"," ","o","f"," ","b","r","o","w","n"," ","r","u","s","t">> },
          d \in {PNone, PStr(<<>>), PStr(<<"L","e","a","f"," ","B","l","a","s","t">>)}, f \in BOOLEAN}
  \cup {<<TRUE, Request(PStr(<<"a","l","t","e","r","n","a","t","i","v","e"," ","t","r","e","a","t","m","e","n","t","?">>), PNone, h, FALSE)>> :
          h \in {HStr, HList(<<>>)}
                \cup {HList(<<e>>) : e \in DictEntries \cup NonDictEntries}
                \cup {HList(<<UserEntry, NonDict("str"), AssistantEntry>>),
                      HList(<<UserEntry, BlankEntry, AssistantEntry>>)}}
  \cup {<<TRUE, Request(PStr(<<"h","i">>), PNone, HList(<<NonDict("int")>>), TRUE)>>}

\* a conversation of n entries, user and assistant in turn, with the entries
\* at the positions in bad replaced by e
Conversation(n, bad, e) ==
  [i \in 1..n |-> IF i \in bad THEN e
                  ELSE IF i % 2 = 1 THEN UserEntry ELSE AssistantEntry]

\* the pairs of prompt composition: the above, every conversation of at most
\* MaxHist entries with any of its entries replaced by a dict with a role that
\* is neither user nor assistant, and every such conversation with one entry
\* replaced by any other kind of entry
ComposeInputs ==
  Inputs
  \cup {<<TRUE, Request(PStr(<<"a","l","t","e","r","n","a","t","i","v","e"," ","t","r","e","a","t","m","e","n","t","?">>), PNone,
                        HList(Conversation(n, bad, SystemEntry)), FALSE)>> :
          n \in 0..MaxHist, bad \in SUBSET (1..MaxHist)}
  \cup {<<TRUE, Request(PStr(<<"a","l","t","e","r","n","a","t","i","v","e"," ","t","r","e","a","t","m","e","n","t","?">>), PNone,
                        HList(Conversation(n, {k}, e)), FALSE)>> :
          n \in 1..MaxHist, k \in 1..MaxHist,
          e \in NonDictEntries \cup DictEntries}

\* response bodies of the upstream
HtmlBody == Plain("<html>Bad Gateway</html>")
NullBody == Json("null", NullDoc)
ListBody == Json("[1]", ListDoc(1))
EmptyListBody == Json("[]", ListDoc(0))
EmptyDictBody == Json("{}", ErrDoc(VAbsent, VAbsent, VAbsent))
ErrStrBody == Json("{error: e*40}", ErrDoc(VStr(Run("e", 40)), VAbsent, VAbsent))
ErrLongBody ==
  Json("{error: a*300 b*300}",
       ErrDoc(VStr(Run("a", 300) \o Run("b", 300)), VAbsent, VAbsent))
ErrNestedBody ==
  Json("{error: {message: m*501, code: 429}}",
       ErrDoc(VDict(TStr(Run("m", 501)), TAbsent, TAbsent, TRUE), VAbsent, VAbsent))
ErrNestedMsgBody ==
  Json("{error: {message: '', msg: g*7}}",
       ErrDoc(VDict(TStr(<<>>), TStr(Run("g", 7)), TAbsent, FALSE), VAbsent, VAbsent))
ErrNestedCodeBody ==
  Json("{error: {code: 5}, message: x*9}",
       ErrDoc(VDict(TAbsent, TAbsent, TAbsent, TRUE), VStr(Run("x", 9)), VAbsent))
ErrEmptyBody ==
  Json("{error: '', message: m*10}",
       ErrDoc(VStr(<<>>), VStr(Run("m", 10)), VAbsent))
ErrNumberBody ==
  Json("{error: 5, message: m*10}", ErrDoc(VInt, VStr(Run("m", 10)), VAbsent))
DetailBody ==
  Json("{detail: d*500}", ErrDoc(VAbsent, VAbsent, VStr(Run("d", 500))))
BlankDetailBody ==
  Json("{error: null, detail: ''}", ErrDoc(VLeaf("none", <<>>), VAbsent, VStr(<<>>)))
ErrorBodies ==
  {HtmlBody, NullBody, ListBody, EmptyListBody, EmptyDictBody, ErrStrBody,
   ErrLongBody, ErrNestedBody, ErrNestedMsgBody, ErrNestedCodeBody,
   ErrEmptyBody, ErrNumberBody, DetailBody, BlankDetailBody}

OkTextBody == Json("content: w*120", ChatDoc("one", TStr(Run("w", 120)), "raise"))
OkGuideBody == Json("content: {causes: ...}", ChatDoc("one", TStr(Run("{", 1) \o Run("g", 90) \o Run("}", 1)), "dict"))
OkJsonListBody == Json("content: [1, 2]", ChatDoc("one", TStr(Run("[", 1) \o Run("1", 1) \o Run("]", 1)), "other"))
OkEmptyBody == Json("content: ''", ChatDoc("one", TStr(<<>>), "raise"))
OkNullContentBody == Json("content: null", ChatDoc("one", TNone, "raise"))
OkNoContentBody == Json("message: {}", ChatDoc("one", TAbsent, "raise"))
OkNoMessageBody == Json("choices: [{}]", ChatDoc("nomsg", TAbsent, "raise"))
OkNoChoicesBody == Json("{id: 1}", ChatDoc("absent", TAbsent, "raise"))
OkEmptyChoicesBody == Json("choices: []", ChatDoc("empty", TAbsent, "raise"))
OkBodies ==
  {OkTextBody, OkGuideBody, OkJsonListBody, OkEmptyBody, OkNullContentBody,
   OkNoContentBody, OkNoMessageBody, OkNoChoicesBody, OkEmptyChoicesBody,
   HtmlBody, NullBody, ListBody, EmptyDictBody}

\* str(e) of a timeout / connection error and of another exception
TimeoutText == Plain("HTTPSConnectionPool: Read timed out.")
UnexpectedText == Plain("Invalid URL")

\* what one HTTP attempt may answer
Http(status, raw) == [kind |-> "http", status |-> status, raw |-> raw]
Responses ==
  {Http(200, b) : b \in OkBodies}
  \cup {Http(s, ErrStrBody) : s \in TRANSIENT_STATUS}
  \cup {Http(401, ErrNestedBody), Http(403, ErrStrBody), Http(404, HtmlBody),
        Http(400, DetailBody), Http(302, HtmlBody), Http(599, HtmlBody)}

\* ------------------------------------------------------------------- state
VARIABLES
  api_key,    \* bool(OPENROUTER_API_KEY), read when the module is imported
  request,    \* request.data
  pc,         \* "start", "call" (inside _call_openrouter), "returned", "done"
  messages,   \* payload["messages"]
  json_mode,  \* whether payload carries response_format = json_object
  attempt,    \* attempt of _call_openrouter
  sleeps,     \* the arguments of time.sleep, in order (tenths of a second)
  warnings,   \* number of logger.warning calls
  observed,   \* what each attempt met: an HTTP response or an exception
  returns,    \* number of tuples _call_openrouter has returned
  result,     \* (up_status, raw_text, js) as returned
  response,   \* the Response of the view
  \* chat/consumers.py and the channel layer
  channel_layer, \* whether a channel layer is configured (not None)
  state,      \* per connection: "idle", "connected", "rejected", "closed"
  groups,     \* the channel layer's groups: name -> set of channel names
  mailbox,    \* per connection: group events waiting for its handler
  relayed,    \* per connection: payloads its broadcast handler has sent
  bcasts,     \* the broadcast frames processed, with the groups at that time
  \* vision/views.py
  artifacts,  \* whether MODEL_DIR holds the model files
  _processor, \* module global: 0 (None) or the request that loaded it
  _model,     \* module global: 0 (None) or the request that loaded it
  _id2label,  \* module global: 0 (None) or the request that set it
  tpc,        \* per predict request: its position
  loaders,    \* the requests that ran the from_pretrained sequence
  seen_labels \* per predict request: _id2label as its inference read it

chat_vars ==
  <<api_key, request, pc, messages, json_mode, attempt, sleeps, warnings,
    observed, returns, result, response>>
ws_vars == <<channel_layer, state, groups, mailbox, relayed, bcasts>>
ml_vars == <<artifacts, _processor, _model, _id2label, tpc, loaders, seen_labels>>
vars == <<chat_vars, ws_vars, ml_vars>>

Conns == 1..NConns
Threads == 1..NThreads
DEFAULT_GROUP == "updates"
\* the group names of the model: the default group and one more
Groups == {DEFAULT_GROUP, "room"}

\* no consumer has connected
WsIdle(layer) ==
  /\ channel_layer = layer
  /\ state = [c \in Conns |-> "idle"]
  /\ groups = [g \in Groups |-> {}]
  /\ mailbox = [c \in Conns |-> <<>>]
  /\ relayed = [c \in Conns |-> <<>>]
  /\ bcasts = <<>>

\* the vision module as imported: nothing loaded, no request yet
MlIdle(present) ==
  /\ artifacts = present
  /\ _processor = 0
  /\ _model = 0
  /\ _id2label = 0
  /\ tpc = [t \in Threads |-> "idle"]
  /\ loaders = {}
  /\ seen_labels = [t \in Threads |-> 0]

call_vars == <<attempt, sleeps, warnings, observed, returns, result>>

\* the state of a request that has not been handled yet
ChatFresh(key, data) ==
  /\ api_key = key
  /\ request = data
  /\ pc = "start"
  /\ messages = <<>>
  /\ json_mode = FALSE
  /\ attempt = 0
  /\ sleeps = <<>>
  /\ warnings = 0
  /\ observed = <<>>
  /\ returns = 0
  /\ result = NoResult
  /\ response = NoResponse

\* ... while no consumer is connected and no model is loaded
Fresh(key, data) == ChatFresh(key, data) /\ WsIdle(FALSE) /\ MlIdle(FALSE)

Init == \E i \in Inputs : Fresh(i[1], i[2])

\* chat(): lines up to the call of _call_openrouter
ChatBegin ==
  /\ pc = "start"
  /\ LET b == Begin(api_key, request)
     IN /\ pc' = b.pc
        /\ response' = b.response
        /\ messages' = b.messages
        /\ json_mode' = b.json_mode
  /\ UNCHANGED <<api_key, request, call_vars>>
  /\ UNCHANGED <<ws_vars, ml_vars>>

\* logger.warning(...); time.sleep(base_delay * attempt); continue
Retry(a, seen) ==
  /\ attempt' = a
  /\ observed' = Append(observed, seen)
  /\ warnings' = warnings + 1
  /\ sleeps' = Append(sleeps, Delay(a))
  /\ UNCHANGED <<pc, returns, result>>

\* return ...
Return(a, seen, r) ==
  /\ attempt' = a
  /\ observed' = Append(observed, seen)
  /\ result' = r
  /\ returns' = returns + 1
  /\ pc' = "returned"
  /\ UNCHANGED <<warnings, sleeps>>

\* one pass of the loop in which requests.post answers
AttemptResponse ==
  /\ pc = "call"
  /\ \E resp \in Responses :
       LET a == attempt + 1
       IN IF resp.status \in TRANSIENT_STATUS /\ CanRetry(a)
            THEN Retry(a, resp)
            ELSE Return(a, resp, ResponseResult(resp.status, resp.raw))
  /\ UNCHANGED <<api_key, request, messages, json_mode, response>>
  /\ UNCHANGED <<ws_vars, ml_vars>>

\* one pass in which requests.post raises Timeout or ConnectionError
AttemptNetworkError ==
  /\ pc = "call"
  /\ LET a == attempt + 1
         seen == [kind |-> "network", status |-> 0, raw |-> TimeoutText]
     IN IF CanRetry(a)
          THEN Retry(a, seen)
          ELSE Return(a, seen, NetworkResult(TimeoutText))
  /\ UNCHANGED <<api_key, request, messages, json_mode, response>>
  /\ UNCHANGED <<ws_vars, ml_vars>>

\* one pass in which requests.post raises any other exception
AttemptUnexpected ==
  /\ pc = "call"
  /\ LET a == attempt + 1
         seen == [kind |-> "unexpected", status |-> 0, raw |-> UnexpectedText]
     IN Return(a, seen, UnexpectedResult(UnexpectedText))
  /\ UNCHANGED <<api_key, request, messages, json_mode, response>>
  /\ UNCHANGED <<ws_vars, ml_vars>>

\* chat(): from the returned tuple to the response
ChatFinish ==
  /\ pc = "returned"
  /\ response' = Finish(result.status, result.raw, result.js, json_mode)
  /\ pc' = "done"
  /\ UNCHANGED <<api_key, request, messages, json_mode, call_vars>>
  /\ UNCHANGED <<ws_vars, ml_vars>>

Next ==
  \/ ChatBegin
  \/ AttemptResponse
  \/ AttemptNetworkError
  \/ AttemptUnexpected
  \/ ChatFinish

Spec == Init /\ [][Next]_vars

\* one request that reaches the upstream call, under the fairness the code
\* has: every attempt ends (requests.post has timeout=45, time.sleep returns)
\* and the view runs on to its return
InitCall ==
  Fresh(TRUE, Request(PStr(<<"W","h","a","t"," ","i","s"," ","l","a","t","e"," ","b","l","i","g","h","t","?">>), PNone,
                      HList(<<UserEntry, AssistantEntry>>), TRUE))
SpecCall == InitCall /\ [][Next]_vars /\ WF_vars(Next)

\* prompt composition alone, over long histories
InitCompose == \E i \in ComposeInputs : Fresh(i[1], i[2])
SpecCompose == InitCompose /\ [][ChatBegin]_vars

\* the error mapper at its call site: the states in which _call_openrouter has
\* returned after every attempt met the same answer
FmtStatuses ==
  {201, 302, 400, 401, 403, 404, 408, 409, 418, 425, 429, 500, 502, 503, 504,
   598, 599, 600}
Returned(seen, n, r) ==
  LET data == Request(PStr(<<"a","l","t","e","r","n","a","t","i","v","e"," ","t","r","e","a","t","m","e","n","t","?">>), PNone, HNone, FALSE)
  IN /\ api_key = TRUE
     /\ request = data
     /\ pc = "returned"
     /\ messages = Begin(TRUE, data).messages
     /\ json_mode = FALSE
     /\ attempt = n
     /\ sleeps = [i \in 1..(n - 1) |-> Delay(i)]
     /\ warnings = n - 1
     /\ observed = [i \in 1..n |-> seen]
     /\ returns = 1
     /\ result = r
     /\ response = NoResponse
     /\ WsIdle(FALSE)
     /\ MlIdle(FALSE)
InitFmt ==
  \/ \E s \in FmtStatuses, b \in ErrorBodies \cup {TimeoutText} :
       Returned(Http(s, b),
                IF s \in TRANSIENT_STATUS THEN max_retries + 1 ELSE 1,
                ResponseResult(s, b))
  \/ Returned([kind |-> "network", status |-> 0, raw |-> TimeoutText],
              max_retries + 1, NetworkResult(TimeoutText))
  \/ Returned([kind |-> "unexpected", status |-> 0, raw |-> UnexpectedText],
              1, UnexpectedResult(UnexpectedText))
SpecFmt == InitFmt /\ [][ChatFinish]_vars

\* ===================================================================== claims
Last(s) == s[Len(s)]
Returning == pc \in {"returned", "done"} /\ returns > 0
Kinds == [i \in DOMAIN observed |-> observed[i].kind]
Statuses == [i \in DOMAIN observed |-> observed[i].status]

\* C1: when every attempt of a call meets a status in {500, 502, 503, 504},
\* the call makes exactly 3 attempts (1 + 2 retries), sleeps base_delay * 1 and
\* then base_delay * 2 (strictly increasing) and returns the last status and
\* body.
C1_ServerErrorsThreeAttempts ==
  (/\ Returning
   /\ \A i \in DOMAIN observed :
        observed[i].kind = "http" /\ observed[i].status \in {500, 502, 503, 504})
  => /\ attempt = 3
     /\ Len(observed) = 3
     /\ sleeps = <<15, 30>>
     /\ sleeps[1] < sleeps[2]
     /\ result.status = observed[3].status
     /\ result.raw = observed[3].raw
C1_Witness ==
  /\ pc = "returned"
  /\ Kinds = <<"http", "http", "http">>
  /\ Statuses = <<500, 503, 504>>
  /\ result.status = 504

\* C2: a status outside {408, 409, 425, 429, 500, 502, 503, 504} is never
\* retried: the attempt that meets it is the last one, and the call returns
\* that status and body without a further sleep.  So an upstream that answers
\* with such a status is asked exactly once and the call never sleeps.
C2_NonTransientOneAttempt ==
  /\ \A i \in DOMAIN observed :
       (/\ observed[i].kind = "http"
        /\ observed[i].status \notin {408, 409, 425, 429, 500, 502, 503, 504})
       => /\ Returning
          /\ i = Len(observed)
          /\ attempt = i
          /\ Len(sleeps) = i - 1
          /\ result.status = observed[i].status
          /\ result.raw = observed[i].raw
  /\ (/\ observed # <<>>
      /\ observed[1].kind = "http"
      /\ observed[1].status \notin {408, 409, 425, 429, 500, 502, 503, 504})
     => /\ attempt = 1
        /\ Len(observed) = 1
        /\ sleeps = <<>>
        /\ warnings = 0
C2_Witness ==
  /\ pc = "returned"
  /\ Statuses = <<404>>
  /\ Kinds = <<"http">>
  /\ result.status = 404

\* the attempts of the call met HTTP responses and timeout / connection
\* errors only
OnlyHttpOrNetwork == \A i \in DOMAIN observed : observed[i].kind \in {"http", "network"}
\* the call returned the timeout / connection sentinel
ReturnedNetworkSentinel ==
  result.status = 599 /\ result.raw = TimeoutText /\ result.js.t = "none"

\* C3 (as claimed): the sentinel 599 is returned only if every attempt failed
\* at the network level; if some attempt obtained an HTTP response, the call
\* returns the status and body of the last HTTP response observed.
C3_SentinelOnlyIfAllNetwork ==
  (Returning /\ OnlyHttpOrNetwork)
  => LET https == SelectSeq(observed, LAMBDA o : o.kind = "http")
     IN /\ ReturnedNetworkSentinel => https = <<>>
        /\ https # <<>> => /\ result.status = Last(https).status
                           /\ result.raw = Last(https).raw

\* C3 (amended): the sentinel 599 is returned exactly when the last attempt,
\* the third, failed at the network level, whatever the earlier attempts met;
\* when the last attempt obtained an HTTP response, the call returns its
\* status and body.
C3_SentinelIffLastAttemptNetwork ==
  (Returning /\ OnlyHttpOrNetwork)
  => /\ Last(observed).kind = "network"
          => ReturnedNetworkSentinel /\ Len(observed) = 3
     /\ Last(observed).kind = "http"
          => /\ result.status = Last(observed).status
             /\ result.raw = Last(observed).raw
             /\ ~ReturnedNetworkSentinel
C3_Witness ==
  /\ pc = "returned"
  /\ Kinds = <<"http", "network", "network">>
  /\ ReturnedNetworkSentinel

\* C4: whatever the attempts meet, a call makes at most 3 attempts, returns at
\* most once, and a call that has begun does return one tuple.
C4_TerminatesWithOneTuple ==
  /\ [](/\ attempt <= 3
        /\ returns <= 1
        /\ (pc = "call" => returns = 0)
        /\ (pc \in {"returned", "done"} /\ attempt > 0
              => returns = 1 /\ result.status # 0))
  /\ [](pc = "call" => <>(pc = "returned" /\ returns = 1))
C4_Witness ==
  /\ pc = "returned"
  /\ Kinds = <<"http", "network", "unexpected">>
  /\ returns = 1
  /\ result.status = 598

\* C5 (as claimed): the envelope's retryable is true iff the upstream status
\* is transient or the call ended in a timeout / connection error.
C5_RetryableIffTransientOrNetwork ==
  (pc = "done" /\ response.kind = "upstream_error")
  => (response.retryable
        <=> \/ result.status \in {408, 409, 425, 429, 500, 502, 503, 504}
            \/ Last(observed).kind = "network")

\* C6: for every non-200 status and every body the mapper raises nothing and
\* answers 401 for 401, 403 for 403, 429 for 429, 503 for 598 / 599 and 502 for
\* everything else, with the upstream status in the envelope and details
\* either None or a string of at most 500 characters.
C6_MapperTotal ==
  pc = "done"
  => /\ response.kind = "upstream_error"
     /\ response.upstream_status = result.status
     /\ response.status =
          CASE result.status \in {401, 403, 429} -> result.status
            [] result.status \in {598, 599} -> 503
            [] OTHER -> 502
     /\ response.message # ""
     /\ response.details.t \in {"none", "str"}
     /\ TextLen(response.details.x) <= 500
C6_Witness ==
  /\ pc = "done"
  /\ result.status = 404
  /\ result.raw = ErrNestedBody
  /\ response.status = 502
  /\ response.details = TStr(Run("m", 500))

\* the request carries a message whose normal form is one of hi, hello, hey,
\* good morning, good afternoon, good evening
GreetingRequest ==
  request.message.t = "str" /\ request.message.s \in GreetingMessages
\* the canned greeting was answered and no upstream call was made
GreetedWithoutCall ==
  /\ pc = "done"
  /\ response = Reply(GREETING_REPLY, TNone)
  /\ attempt = 0
  /\ observed = <<>>
  /\ returns = 0

\* C7 (as claimed): every request whose message normalises to a greeting is
\* answered with the canned greeting and makes no upstream call, whatever the
\* configuration.
C7_GreetingAlwaysCanned == (pc # "start" /\ GreetingRequest) => GreetedWithoutCall

\* C7 (amended): with OPENROUTER_API_KEY set, every request whose message
\* normalises to a greeting is answered with the canned greeting and makes no
\* upstream call; without the key the answer is the 400 configuration error.
C7_GreetingCannedWhenKeySet ==
  (pc # "start" /\ GreetingRequest)
  => IF api_key THEN GreetedWithoutCall
     ELSE /\ pc = "done"
          /\ response = Error(400, "OPENROUTER_API_KEY not set")
          /\ attempt = 0
C7_Witness ==
  /\ api_key
  /\ request.message = PStr(<<"G","o","o","d","-","M","o","r","n","i","n","g">>)
  /\ GreetedWithoutCall

\* the history turns of the composed list: between the system message and the
\* final user message
Turns == SubSeq(messages, 2, Len(messages) - 1)
HistoryItems == IF request.history.t = "list" THEN request.history.items ELSE <<>>
\* the last n elements of s
LastN(s, n) == SubSeq(s, IF Len(s) > n THEN Len(s) - n + 1 ELSE 1, Len(s))
\* an entry with role user or assistant and text content that is not blank
ValidEntry(m) ==
  /\ m.t = "dict"
  /\ m.role \in {PStr(<<"u","s","e","r">>),
                 PStr(<<"a","s","s","i","s","t","a","n","t">>)}
  /\ m.content.t = "str"
  /\ \E i \in DOMAIN m.content.x : m.content.x[i].ch \notin {" ", "\n", "\t"}
\* the turn expected of a valid entry
ExpectedTurn(m) ==
  [role |-> m.role.s, kind |-> "turn",
   text |-> TextSlice(TextStrip(m.content.x), 4000),
   disease |-> PNone, sections |-> <<>>, question |-> <<>>]
ExpectedTurns(entries) == [i \in DOMAIN entries |-> ExpectedTurn(entries[i])]

\* C8 (as claimed): the history turns are the last 8 of the valid history
\* entries, in order, each capped at 4000 characters.
C8_LastEightOfValidEntries ==
  pc = "call"
  => Turns = ExpectedTurns(LastN(SelectSeq(HistoryItems, ValidEntry), 8))

\* C8 (amended): the history turns are the valid entries among the last 8
\* entries of the history list, in order, each stripped and capped at 4000
\* characters: at most 8 turns, and fewer when an invalid entry is among the
\* last 8, whatever precedes them.
C8_ValidEntriesOfLastEight ==
  pc = "call"
  => /\ Turns = ExpectedTurns(SelectSeq(LastN(HistoryItems, 8), ValidEntry))
     /\ Len(Turns) <= 8
     /\ \A i \in DOMAIN Turns : TextLen(Turns[i].text) <= 4000
     /\ messages[1].kind = "system"
     /\ Last(messages).kind = "final"
C8_Witness ==
  /\ pc = "call"
  /\ Len(HistoryItems) = 9
  /\ Len(SelectSeq(HistoryItems, ValidEntry)) = 8
  /\ Len(Turns) = 7
  /\ \E i \in DOMAIN Turns : TextLen(Turns[i].text) = 4000

\* C9 (as claimed): a history list with entries that are no dicts never fails
\* prompt composition: the request goes on to the upstream call (or to a
\* canned reply), never to an error response.
C9_MalformedHistorySkipped ==
  (/\ pc # "start"
   /\ api_key
   /\ request.message.t = "str"
   /\ \E i \in DOMAIN HistoryItems : HistoryItems[i].t # "dict")
  => \/ pc \in {"call", "returned"}
     \/ attempt > 0
     \/ response.kind = "reply"

\* the call returned 200 with a document that carries a model content, a str
ContentReturned ==
  /\ result.status = 200
  /\ result.raw.valid
  /\ result.raw.doc.root = "dict"
  /\ result.raw.doc.choices = "one"
  /\ result.raw.doc.content.t = "str"
StructuredRequested == request.force_json /\ json_mode

\* C10 (as claimed): structured output requested and status 200: a content
\* that is empty or no valid JSON is answered with a success response carrying
\* the raw text as reply.
C10_MalformedContentIsReply ==
  (/\ pc = "done"
   /\ StructuredRequested
   /\ ContentReturned
   /\ result.raw.doc.cjson = "raise")
  => /\ response.status = 200
     /\ response.kind = "reply"
     /\ response.content = result.raw.doc.content

\* C10 (amended): structured output requested and status 200: a non-empty
\* content that is no valid JSON is answered with a success response carrying
\* the raw text as reply; an empty content is answered with the 502 error
\* "Empty response from model".
C10_NonEmptyMalformedContentIsReply ==
  (/\ pc = "done"
   /\ StructuredRequested
   /\ ContentReturned
   /\ result.raw.doc.cjson = "raise")
  => IF result.raw.doc.content.x # <<>>
       THEN /\ response.status = 200
            /\ response.kind = "reply"
            /\ response.content = result.raw.doc.content
       ELSE response = Error(502, "Empty response from model")
C10_Witness ==
  /\ pc = "done"
  /\ StructuredRequested
  /\ result.raw = OkTextBody
  /\ response.kind = "reply"
  /\ response.content = TStr(Run("w", 120))

\* ============================================== chat/consumers.py: UpdatesConsumer
\* An inbound frame.  kind: "bytes" (bytes that are no UTF-8), "text" (text
\* that is no JSON), "value" (JSON, but no object) or "object"; for an object
\* its 'action' (characters; "" when missing), 'channel' and 'payload' ("" when
\* missing or empty).
Frame(kind, action, channel, payload) ==
  [kind |-> kind, action |-> action, channel |-> channel, payload |-> payload]
FrameActions == { <<"j","o","i","n">>, <<"l","e","a","v","e">>, <<"L","e","a","v","e">>, <<"p","i","n","g">>, <<"b","r","o","a","d","c","a","s","t">>, <<"s","t","a","t","u","s">> }
Frames ==
  {Frame("bytes", <<>>, "", ""), Frame("text", <<>>, "", ""),
   Frame("value", <<>>, "", "")}
  \cup {Frame("object", a, ch, "") :
          a \in FrameActions, ch \in {"", DEFAULT_GROUP, "room"}}
  \cup {Frame("object", <<"b","r","o","a","d","c","a","s","t">>, ch, "p") : ch \in {"", DEFAULT_GROUP, "room"}}

\* Fault: the channel of the frame ignored.
frame_group_default(f) == DEFAULT_GROUP

\* group = data.get('channel') or self.DEFAULT_GROUP
frame_group(f) == IF f.channel = "" THEN DEFAULT_GROUP ELSE f.channel

\* payload = data.get('payload') or {}
frame_payload(f) == IF f.payload = "" THEN "{}" ELSE f.payload

\* action = str(data.get('action', '')).lower()
frame_action(f) == lower(f.action)

\* channel_layer.group_add(group, channel_name)
group_add(g, c) == [groups EXCEPT ![g] = @ \cup {c}]
\* channel_layer.group_discard(group, channel_name)
group_discard(g, c) == [groups EXCEPT ![g] = @ \ {c}]

\* the event of channel_layer.group_send in receive(); id counts the
\* broadcasts
Event(id, g, data) ==
  [type |-> "broadcast", id |-> id,
   payload |-> [type |-> "update", group |-> g, data |-> data]]

\* channel_layer.group_send(group, event): the event is queued on every
\* channel of the group
group_send(g, event) ==
  [c \in Conns |-> IF c \in groups[g] THEN Append(mailbox[c], event)
                                      ELSE mailbox[c]]

\* connect()
Connect(c) ==
  /\ state[c] = "idle"
  /\ IF ~channel_layer
       THEN /\ state' = [state EXCEPT ![c] = "rejected"]
            /\ UNCHANGED groups
       ELSE /\ groups' = group_add(DEFAULT_GROUP, c)
            /\ state' = [state EXCEPT ![c] = "connected"]
  /\ UNCHANGED <<channel_layer, mailbox, relayed, bcasts>>
  /\ UNCHANGED <<chat_vars, ml_vars>>

\* disconnect(code)
Disconnect(c) ==
  /\ state[c] \in {"connected", "rejected"}
  /\ state' = [state EXCEPT ![c] = "closed"]
  /\ groups' = IF channel_layer THEN group_discard(DEFAULT_GROUP, c) ELSE groups
  /\ UNCHANGED <<channel_layer, mailbox, relayed, bcasts>>
  /\ UNCHANGED <<chat_vars, ml_vars>>

\* receive(text_data, bytes_data) on one frame.  The acknowledgements it
\* writes to its own socket leave the consumer and the channel layer as they
\* are; what the broadcast handler writes is kept in relayed.
Receive(c) ==
  /\ state[c] = "connected"
  /\ \E f \in Frames :
       LET action == frame_action(f)
           payload == frame_payload(f)
           group == frame_group(f)
       IN CASE f.kind = "bytes" ->           \* undecodable: ignored
                 UNCHANGED <<groups, mailbox, bcasts>>
            [] f.kind \in {"text", "value"} -> \* echoed
                 UNCHANGED <<groups, mailbox, bcasts>>
            [] f.kind = "object" /\ action = <<"j","o","i","n">> /\ channel_layer ->
                 /\ groups' = group_add(group, c)
                 /\ UNCHANGED <<mailbox, bcasts>>
            [] f.kind = "object" /\ action = <<"l","e","a","v","e">> /\ channel_layer ->
                 /\ groups' = group_discard(group, c)
                 /\ UNCHANGED <<mailbox, bcasts>>
            [] f.kind = "object" /\ action = <<"p","i","n","g">> ->   \* pong
                 UNCHANGED <<groups, mailbox, bcasts>>
            [] f.kind = "object" /\ action = <<"b","r","o","a","d","c","a","s","t">> /\ channel_layer ->
                 /\ Len(bcasts) < MaxBroadcasts
                 /\ mailbox' = group_send(group, Event(Len(bcasts) + 1, group, payload))
                 /\ bcasts' = Append(bcasts, [sender |-> c, frame |-> f, groups |-> groups])
                 /\ UNCHANGED groups
            [] OTHER ->                      \* {"ok": True, "received": data}
                 UNCHANGED <<groups, mailbox, bcasts>>
  /\ UNCHANGED <<channel_layer, state, relayed>>
  /\ UNCHANGED <<chat_vars, ml_vars>>

\* broadcast(event): the handler of a queued group event
Broadcast(c) ==
  /\ state[c] = "connected"
  /\ mailbox[c] # <<>>
  /\ LET event == Head(mailbox[c])
     IN relayed' = [relayed EXCEPT ![c] = Append(@, [id |-> event.id, payload |-> event.payload])]
  /\ mailbox' = [mailbox EXCEPT ![c] = Tail(@)]
  /\ UNCHANGED <<channel_layer, state, groups, bcasts>>
  /\ UNCHANGED <<chat_vars, ml_vars>>

NextWs ==
  \/ \E c \in Conns : Connect(c)
  \/ \E c \in Conns : Disconnect(c)
  \/ \E c \in Conns : Receive(c)
  \/ \E c \in Conns : Broadcast(c)

InitWs ==
  /\ \E layer \in BOOLEAN : WsIdle(layer)
  /\ ChatFresh(TRUE, Request(PStr(<<"h","i">>), PNone, HNone, FALSE))
  /\ MlIdle(FALSE)
SpecWs == InitWs /\ [][NextWs]_vars

\* ---------------------------------------------------------------- C11, C12
\* the channel of a connection is in group g
Member(c, g) == c \in groups[g]

\* C11: a connection that was accepted and is still open is a member of the
\* default group 'updates', whatever frames it has sent.
C11_ConnectedInDefaultGroup ==
  \A c \in Conns : state[c] = "connected" => Member(c, "updates")

\* C12: once the disconnect handler of a connection has run, its channel is a
\* member of no group.
C12_ClosedInNoGroup ==
  \A c \in Conns : state[c] = "closed" => \A g \in Groups : ~Member(c, g)

\* -------------------------------------------------------------------- C13
\* the group and the data a broadcast frame names, read off the frame
NamedGroup(f) == IF f.channel \in {"updates", "room"} THEN f.channel ELSE "updates"
NamedData(f) == IF f.payload = "p" THEN "p" ELSE "{}"
Envelope(f) == [type |-> "update", group |-> NamedGroup(f), data |-> NamedData(f)]

\* the event of the i-th broadcast waits for the handler of c / was sent by
\* the handler of c
Queued(c, i) == \E k \in DOMAIN mailbox[c] : mailbox[c][k].id = i
Relayed(c, i) == \E k \in DOMAIN relayed[c] : relayed[c][k].id = i
Got(c, i) == Queued(c, i) \/ Relayed(c, i)
\* what the handlers hold or sent for the i-th broadcast is its envelope
EnvelopeKept(c, i) ==
  /\ \A k \in DOMAIN mailbox[c] :
       mailbox[c][k].id = i =>
         mailbox[c][k].type = "broadcast" /\ mailbox[c][k].payload = Envelope(bcasts[i].frame)
  /\ \A k \in DOMAIN relayed[c] :
       relayed[c][k].id = i => relayed[c][k].payload = Envelope(bcasts[i].frame)
\* the members of the named group when the i-th broadcast was processed
MembersThen(i) == bcasts[i].groups[NamedGroup(bcasts[i].frame)]

\* C13 as stated: the envelope of a broadcast goes to every member of the
\* group at that moment and also to the sender, whatever its groups.
C13_MembersAndSenderGetEnvelope ==
  \A i \in DOMAIN bcasts :
    \A c \in MembersThen(i) \cup {bcasts[i].sender} :
      Got(c, i) /\ EnvelopeKept(c, i)

\* C13, amended: the envelope {type: update, group: G, data: P} of a broadcast
\* goes to exactly the members of G at that moment, once each, through the
\* broadcast handler; the sender gets it if and only if it is such a member.
C13_ExactlyMembersGetEnvelope ==
  \A i \in DOMAIN bcasts :
    \A c \in Conns :
      /\ Got(c, i) <=> c \in MembersThen(i)
      /\ ~(Queued(c, i) /\ Relayed(c, i))
      /\ EnvelopeKept(c, i)

\* a member of 'room' has been sent the envelope of a broadcast with data
\* whose sender, no member of 'room', got nothing
C13_Witness ==
  \E i \in DOMAIN bcasts :
    /\ bcasts[i].frame.channel = "room"
    /\ bcasts[i].frame.payload = "p"
    /\ bcasts[i].sender \notin MembersThen(i)
    /\ ~Got(bcasts[i].sender, i)
    /\ \E c \in MembersThen(i) :
         \E k \in DOMAIN relayed[c] :
           relayed[c][k] = [id |-> i, payload |-> [type |-> "update", group |-> "room", data |-> "p"]]

\* ============================================== vision/views.py: the lazy loader
\* predict() up to the test of _load_model_if_needed:
\* if _model is not None and _processor is not None: return None
Check(t) ==
  /\ tpc[t] = "idle"
  /\ tpc' = [tpc EXCEPT ![t] = IF _model # 0 /\ _processor # 0 THEN "infer" ELSE "try"]
  /\ UNCHANGED <<artifacts, _processor, _model, _id2label, loaders, seen_labels>>
  /\ UNCHANGED <<chat_vars, ws_vars>>

\* the tests of MODEL_DIR and of its files: an error text when one is missing
Assets(t) ==
  /\ tpc[t] = "try"
  /\ tpc' = [tpc EXCEPT ![t] = IF artifacts THEN "load_processor" ELSE "failed"]
  /\ UNCHANGED <<artifacts, _processor, _model, _id2label, loaders, seen_labels>>
  /\ UNCHANGED <<chat_vars, ws_vars>>

\* _processor = AutoImageProcessor.from_pretrained(...)
LoadProcessor(t) ==
  /\ tpc[t] = "load_processor"
  /\ _processor' = t
  /\ loaders' = loaders \cup {t}
  /\ tpc' = [tpc EXCEPT ![t] = "load_model"]
  /\ UNCHANGED <<artifacts, _model, _id2label, seen_labels>>
  /\ UNCHANGED <<chat_vars, ws_vars>>

\* _model = AutoModelForImageClassification.from_pretrained(...)
LoadModel(t) ==
  /\ tpc[t] = "load_model"
  /\ _model' = t
  /\ tpc' = [tpc EXCEPT ![t] = "labels"]
  /\ UNCHANGED <<artifacts, _processor, _id2label, loaders, seen_labels>>
  /\ UNCHANGED <<chat_vars, ws_vars>>

\* _model.eval(); _label2id = ...; _id2label = getattr(_model.config, ...);
\* return None
SetLabels(t) ==
  /\ tpc[t] = "labels"
  /\ _id2label' = _model
  /\ tpc' = [tpc EXCEPT ![t] = "infer"]
  /\ UNCHANGED <<artifacts, _processor, _model, loaders, seen_labels>>
  /\ UNCHANGED <<chat_vars, ws_vars>>

\* except Exception as e: return str(e) -- a from_pretrained call that raises
LoadError(t) ==
  /\ tpc[t] \in {"load_processor", "load_model"}
  /\ loaders' = loaders \cup {t}
  /\ tpc' = [tpc EXCEPT ![t] = "failed"]
  /\ UNCHANGED <<artifacts, _processor, _model, _id2label, seen_labels>>
  /\ UNCHANGED <<chat_vars, ws_vars>>

\* _predict_image after the loader: the forward pass with _processor and _model
Forward(t) ==
  /\ tpc[t] = "infer"
  /\ tpc' = [tpc EXCEPT ![t] = "label"]
  /\ UNCHANGED <<artifacts, _processor, _model, _id2label, loaders, seen_labels>>
  /\ UNCHANGED <<chat_vars, ws_vars>>

\* ... and the labels of the answer, read from _id2label
Label(t) ==
  /\ tpc[t] = "label"
  /\ seen_labels' = [seen_labels EXCEPT ![t] = _id2label]
  /\ tpc' = [tpc EXCEPT ![t] = "done"]
  /\ UNCHANGED <<artifacts, _processor, _model, _id2label, loaders>>
  /\ UNCHANGED <<chat_vars, ws_vars>>

NextVision ==
  \/ \E t \in Threads : Check(t)
  \/ \E t \in Threads : Assets(t)
  \/ \E t \in Threads : LoadProcessor(t)
  \/ \E t \in Threads : LoadModel(t)
  \/ \E t \in Threads : SetLabels(t)
  \/ \E t \in Threads : LoadError(t)
  \/ \E t \in Threads : Forward(t)
  \/ \E t \in Threads : Label(t)

InitVision ==
  /\ \E present \in BOOLEAN : MlIdle(present)
  /\ ChatFresh(TRUE, Request(PStr(<<"h","i">>), PNone, HNone, FALSE))
  /\ WsIdle(FALSE)
SpecVision == InitVision /\ [][NextVision]_vars

\* -------------------------------------------------------------------- C14
\* the request is past the loader, in the inference of _predict_image
Inferring(t) == tpc[t] \in {"infer", "label"}

\* C14: with the model files present, at most one request executes the
\* from_pretrained sequence, and no request is in inference while _processor
\* and _model are set but _id2label is not.
C14_LoadedOnceAndWhole ==
  artifacts =>
    /\ Cardinality(loaders) <= 1
    /\ \A t \in Threads :
         Inferring(t) /\ _processor # 0 /\ _model # 0 => _id2label # 0

====
